---- MODULE Spec2Model ----
(***************************************************************************)
(* State-machine model of floor_plan/floor_plan_generator.py: the batch    *)
(* pipeline that normalises a point cloud, aligns it with PCA, slices it   *)
(* into a floor band and wall bands, rasterises each band, extracts        *)
(* contours and measures the merged regions.                               *)
(*                                                                         *)
(* Lengths are integers in centimetres (0.02 m = 2, 0.05 m = 5), areas in  *)
(* square centimetres (0.05 m^2 = 500).  A point cloud is a sequence of    *)
(* rows [x, y, z, n]: n consecutive rows of the numpy array that carry the *)
(* same coordinates.  The position in the sequence is the identity of the  *)
(* rows; a boolean-mask selection keeps the order of the rows it selects.  *)
(*                                                                         *)
(* The second part models the tagger started by main.py: TagManager        *)
(* (src/core/tag_manager.py), the tag handlers of MainWindow               *)
(* (src/ui/main_window.py) and PhotoPanel (src/ui/panels/photo_panel.py).  *)
(* Each part has its own specifications; the variables of the other part   *)
(* stay at their initial values.                                           *)
(***************************************************************************)
EXTENDS Integers, Sequences, FiniteSets, Bags, TLC

VARIABLES
    pc,                 \* the statement group the script is about to run
    error,              \* the exception that ended the run, "none" otherwise
    pcd,                \* the rows read from PLY_FILE
    points,             \* the array named points
    points_normalized,  \* the array named points_normalized
    floor_points_temp,  \* near-floor rows used for the PCA
    rotation_matrix_2d, \* the 2x2 rotation applied to XY
    floor_points,       \* rows of the floor band (replaced by the fallback)
    x_bins, y_bins,     \* bin edges, each [lo, n]: lo, lo+resolution, ... (n edges)
    x_min, y_min,       \* grid origin (floor extent minimum)
    grid,               \* the density grid computed last
    polygons,           \* valid floor polygons
    merged_floor,       \* the floor Region
    fallback,           \* TRUE when the convex hull fallback was taken
    z_min, z_max,       \* height range used by the wall loop
    i,                  \* the wall loop index
    wall_slices,        \* appended (i, Region, slice_points) entries
    measurements,       \* what STEP 5 computed: floor first, then the wall slices
    tags,               \* TagManager.tags, each tag [id, text]
    storage,            \* the tags in the JSON file at TagManager.storage_path
    tag_call,           \* the last TagManager call: op, tag_id, result, saved
    selected_tag_id,    \* MainWindow.selected_tag_id
    move_mode,          \* MainWindow.move_mode
    file_queue,         \* PhotoPanel.file_queue, the items in FIFO order
    dialogs,            \* the clicks whose dialog thread has not put its item yet
    posted,             \* _check_queue callbacks posted to the main thread
    main_thread,        \* "idle", or "upload" inside _on_upload after Thread.start
    current_photos,     \* PhotoPanel.current_photos
    photo_count_label,  \* the number shown by PhotoPanel.photo_count_label
    clicks,             \* Upload clicks so far
    taken               \* the items _check_queue took from file_queue, in order

\* the variables of floor_plan/floor_plan_generator.py
script_vars == <<pc, error, pcd, points, points_normalized, floor_points_temp,
                 rotation_matrix_2d, floor_points, x_bins, y_bins, x_min, y_min,
                 grid, polygons, merged_floor, fallback, z_min, z_max, i,
                 wall_slices, measurements>>

\* the variables of the tagger: TagManager, MainWindow and PhotoPanel
tagger_vars == <<tags, storage, tag_call, selected_tag_id, move_mode,
                 file_queue, dialogs, posted, main_thread, current_photos,
                 photo_count_label, clicks, taken>>

vars == <<script_vars, tagger_vars>>

\* None of Python
None == "None"

\* the tagger before anything is loaded or clicked: TagManager.__init__,
\* MainWindow.__init__, PhotoPanel.__init__
TaggerIdle ==
    /\ tags = <<>>
    /\ storage = <<>>
    /\ tag_call = [op |-> "none"]
    /\ selected_tag_id = None
    /\ move_mode = FALSE
    /\ file_queue = <<>>
    /\ dialogs = {}
    /\ posted = 0
    /\ main_thread = "idle"
    /\ current_photos = <<>>
    /\ photo_count_label = 0
    /\ clicks = 0
    /\ taken = <<>>

(***************************************************************************)
(* Program constants (floor_plan_generator.py).                            *)
(***************************************************************************)
resolution == 2
floor_margin == 5
floor_percentile == 2
fallback_percentile == 5
n_slices == 4
min_stratum_points == 500
occupancy_minimum == 1
min_polygon_area == 500

(***************************************************************************)
(* Arithmetic helpers.                                                     *)
(***************************************************************************)
Abs(v) == IF v < 0 THEN -v ELSE v

SetMin(S) == CHOOSE m \in S : \A t \in S : m <= t

SetMax(S) == CHOOSE m \in S : \A t \in S : m >= t

\* ceil(a / b) for b > 0
CeilDiv(a, b) == IF a <= 0 THEN 0 ELSE ((a - 1) \div b) + 1

RECURSIVE SumRange(_, _, _)
\* sum of f[k] for k in lo..hi, f a sequence of integers
SumRange(f, lo, hi) ==
    IF lo > hi THEN 0
    ELSE IF lo = hi THEN f[lo]
    ELSE SumRange(f, lo, (lo + hi) \div 2) + SumRange(f, (lo + hi) \div 2 + 1, hi)

SeqSum(f) == SumRange(f, 1, Len(f))

\* len(rows): the number of rows of the array
NumRows(rows) == SeqSum([k \in 1..Len(rows) |-> rows[k].n])

\* arr.min(axis=0) / arr.max(axis=0) for one axis
AxisMin(rows, ax) == SetMin({rows[k][ax] : k \in 1..Len(rows)})

AxisMax(rows, ax) == SetMax({rows[k][ax] : k \in 1..Len(rows)})

Row(x, y, z, n) == [x |-> x, y |-> y, z |-> z, n |-> n]

\* sum over the rows of the product of the columns a and b, every row
\* counted n times ("one" is the column of ones)
WSum(rows, a, b) ==
    LET col(p, c) == IF c = "one" THEN 1 ELSE p[c]
    IN  SeqSum([k \in 1..Len(rows) |->
                   rows[k].n * col(rows[k], a) * col(rows[k], b)])

(***************************************************************************)
(* NORMALIZE COORDINATES: points - points.min(axis=0).                     *)
(***************************************************************************)
\* variant: the z column is left as it was read
Normalize_KeepZ(rows) ==
    LET x_min_orig == AxisMin(rows, "x")
        y_min_orig == AxisMin(rows, "y")
    IN  [k \in 1..Len(rows) |->
            Row(rows[k].x - x_min_orig, rows[k].y - y_min_orig,
                rows[k].z, rows[k].n)]

Normalize(rows) ==
    LET x_min_orig == AxisMin(rows, "x")
        y_min_orig == AxisMin(rows, "y")
        z_min_orig == AxisMin(rows, "z")
    IN  [k \in 1..Len(rows) |->
            Row(rows[k].x - x_min_orig, rows[k].y - y_min_orig,
                rows[k].z - z_min_orig, rows[k].n)]

(***************************************************************************)
(* np.percentile(points[:, 2], q), linear interpolation between the two    *)
(* closest ranks, times 100 so that the value stays an integer.            *)
(***************************************************************************)
CountLE(rows, v) ==
    SeqSum([k \in 1..Len(rows) |-> IF rows[k].z <= v THEN rows[k].n ELSE 0])

\* sorted(z)[k], k counted from 0
SortedZ(rows, k) ==
    SetMin({v \in {rows[j].z : j \in 1..Len(rows)} : CountLE(rows, v) > k})

Percentile100(rows, q) ==
    LET n  == NumRows(rows)
        t  == q * (n - 1)
        lo == t \div 100
        f  == t % 100
        hi == IF lo + 1 > n - 1 THEN n - 1 ELSE lo + 1
    IN  SortedZ(rows, lo) * (100 - f) + SortedZ(rows, hi) * f

\* points[points[:, 2] < np.percentile(points[:, 2], q) + 0.05]
FloorSelect(rows, q) ==
    LET threshold100 == Percentile100(rows, q) + 100 * floor_margin
        Keep(p) == 100 * p.z < threshold100
    IN  SelectSeq(rows, Keep)

(***************************************************************************)
(* STEP 2: PCA on the XY of the near-floor rows.                           *)
(* mean_xy is the pair (sx / n, sy / n); cov_matrix is kept multiplied by  *)
(* the positive factor n * (n - 1).  With a single near-floor row np.cov   *)
(* divides by zero degrees of freedom and returns NaN.                     *)
(***************************************************************************)
MeanXY(rows) == [sx |-> WSum(rows, "x", "one"), sy |-> WSum(rows, "y", "one"), n |-> NumRows(rows)]

CovMatrix(rows) ==
    LET m == MeanXY(rows)
    IN  IF m.n < 2 THEN [nan |-> TRUE, m |-> << <<0, 0>>, <<0, 0>> >>]
        ELSE [nan |-> FALSE,
              m |-> << << m.n * WSum(rows, "x", "x") - m.sx * m.sx,
                          m.n * WSum(rows, "x", "y") - m.sx * m.sy >>,
                       << m.n * WSum(rows, "x", "y") - m.sx * m.sy,
                          m.n * WSum(rows, "y", "y") - m.sy * m.sy >> >>]

\* The clouds of the model have an axis-parallel near-floor covariance, for
\* which the eigenvectors are the unit vectors and the rotation is exact.
DiagonalCov(cov) == ~cov.nan /\ cov.m[1][2] = 0

\* np.linalg.eig of a diagonal matrix: the diagonal, and the identity
Eig(cov) ==
    CASE DiagonalCov(cov) ->
        [eigenvalues |-> <<cov.m[1][1], cov.m[2][2]>>,
         eigenvectors |-> << <<1, 0>>, <<0, 1>> >>]

\* variant: the eigenvalues are sorted in ascending order
ArgsortAsc(ev) == IF ev[1] <= ev[2] THEN <<1, 2>> ELSE <<2, 1>>

\* eigenvalues.argsort()[::-1] for two values (argsort is stable on a tie)
ArgsortDesc(ev) == IF ev[1] <= ev[2] THEN <<2, 1>> ELSE <<1, 2>>

Det2(m) == m[1][1] * m[2][2] - m[1][2] * m[2][1]

Transpose2(m) == << <<m[1][1], m[2][1]>>, <<m[1][2], m[2][2]>> >>

\* variant: the sorted eigenvectors are used as they are
SortedEigenvectors_NoFix(cov) ==
    LET e   == Eig(cov)
        idx == ArgsortDesc(e.eigenvalues)
        v   == e.eigenvectors
    IN  << <<v[1][idx[1]], v[1][idx[2]]>>, <<v[2][idx[1]], v[2][idx[2]]>> >>

\* eigenvectors[:, idx], then the second column negated when det < 0
SortedEigenvectors(cov) ==
    LET e   == Eig(cov)
        idx == ArgsortDesc(e.eigenvalues)
        v   == e.eigenvectors
        s   == << <<v[1][idx[1]], v[1][idx[2]]>>, <<v[2][idx[1]], v[2][idx[2]]>> >>
    IN  IF Det2(s) < 0
        THEN << <<s[1][1], -s[1][2]>>, <<s[2][1], -s[2][2]>> >>
        ELSE s

RotationMatrix(cov) == Transpose2(SortedEigenvectors(cov))

\* (points_xy - mean_xy) @ rotation_matrix_2d.T, multiplied by mean.n
RotatedXY(p, mean, rot) ==
    LET cx == mean.n * p.x - mean.sx
        cy == mean.n * p.y - mean.sy
    IN  << cx * rot[1][1] + cy * rot[1][2], cx * rot[2][1] + cy * rot[2][2] >>

\* variant: the rotated columns are written over y and z
Align_WrongColumns(rows, mean, rot) ==
    LET r   == [k \in 1..Len(rows) |-> RotatedXY(rows[k], mean, rot)]
        mnx == SetMin({r[k][1] : k \in 1..Len(rows)})
        mny == SetMin({r[k][2] : k \in 1..Len(rows)})
    IN  [k \in 1..Len(rows) |->
            Row(rows[k].x, (r[k][1] - mnx) \div mean.n,
                (r[k][2] - mny) \div mean.n, rows[k].n)]

\* variant: the rotated columns are not recentred
Align_NoRecentre(rows, mean, rot) ==
    LET r == [k \in 1..Len(rows) |-> RotatedXY(rows[k], mean, rot)]
    IN  [k \in 1..Len(rows) |->
            Row(r[k][1] \div mean.n, r[k][2] \div mean.n, rows[k].z, rows[k].n)]

\* rotation about mean_xy, then points[:, :2] - points[:, :2].min(axis=0)
Align(rows, mean, rot) ==
    LET r   == [k \in 1..Len(rows) |-> RotatedXY(rows[k], mean, rot)]
        mnx == SetMin({r[k][1] : k \in 1..Len(rows)})
        mny == SetMin({r[k][2] : k \in 1..Len(rows)})
    IN  [k \in 1..Len(rows) |->
            Row((r[k][1] - mnx) \div mean.n, (r[k][2] - mny) \div mean.n,
                rows[k].z, rows[k].n)]

(***************************************************************************)
(* STEP 3: bin edges and the density grid.                                 *)
(* np.arange(lo, hi, resolution) is kept as [lo, n]: the n edges           *)
(* lo, lo + resolution, ..., all below hi.                                 *)
(***************************************************************************)
Arange(lo, hi) == [lo |-> lo, n |-> CeilDiv(hi - lo, resolution)]

LastEdge(b) == b.lo + (b.n - 1) * resolution

\* the bin of v among the edges b, -1 for an outlier; the last bin is closed
BinIndex(v, b) ==
    IF v < b.lo \/ v > LastEdge(b) THEN -1
    ELSE IF v = LastEdge(b) THEN b.n - 2
    ELSE (v - b.lo) \div resolution

RECURSIVE BinBag(_, _, _, _)
\* the bag of the bins of rows lo..hi, every row counted n times
BinBag(bin, rows, lo, hi) ==
    IF lo > hi THEN EmptyBag
    ELSE IF lo = hi THEN bin[lo] :> rows[lo].n
    ELSE LET mid == (lo + hi) \div 2
         IN  BinBag(bin, rows, lo, mid) (+) BinBag(bin, rows, mid + 1, hi)

\* np.histogram2d(x, y, bins=(x_bins, y_bins)) for non-empty edge arrays:
\* shape (len(x_bins) - 1, len(y_bins) - 1), count[<<ix, iy>>]; "@@ <<>>"
\* makes TLC tabulate the counts once
Histogram2d(rows, xb, yb) ==
    LET bin  == [k \in 1..Len(rows) |->
                    <<BinIndex(rows[k].x, xb), BinIndex(rows[k].y, yb)>>]
        hits == BinBag(bin, rows, 1, Len(rows))
    IN  [shape |-> <<xb.n - 1, yb.n - 1>>,
         count |-> [c \in {<<ix, iy>> : ix \in 0..(xb.n - 2), iy \in 0..(yb.n - 2)} |->
                       CopiesIn(c, hits)] @@ <<>>]

\* variant: a cell of exactly occupancy_minimum points is occupied
Binary_AtLeast(g, r, c) == g.count[<<c, r>>] >= occupancy_minimum

\* binary = grid.T > 1, read at row r, column c
Binary(g, r, c) == g.count[<<c, r>>] > occupancy_minimum

(***************************************************************************)
(* skimage.measure.find_contours(binary, 0.5): marching squares with the  *)
(* default fully_connected = 'low'.  Image coordinates (row, col) are kept *)
(* doubled, so that the edge midpoints are integers.                       *)
(***************************************************************************)
SquareCase(g, r0, c0) ==
      (IF Binary(g, r0, c0) THEN 1 ELSE 0)
    + (IF Binary(g, r0, c0 + 1) THEN 2 ELSE 0)
    + (IF Binary(g, r0 + 1, c0) THEN 4 ELSE 0)
    + (IF Binary(g, r0 + 1, c0 + 1) THEN 8 ELSE 0)

SquareSegments(g, r0, c0) ==
    LET top    == <<2 * r0, 2 * c0 + 1>>
        bottom == <<2 * r0 + 2, 2 * c0 + 1>>
        left   == <<2 * r0 + 1, 2 * c0>>
        right  == <<2 * r0 + 1, 2 * c0 + 2>>
        sq     == SquareCase(g, r0, c0)
    IN  CASE sq = 1  -> {<<top, left>>}
          [] sq = 2  -> {<<right, top>>}
          [] sq = 3  -> {<<right, left>>}
          [] sq = 4  -> {<<left, bottom>>}
          [] sq = 5  -> {<<top, bottom>>}
          [] sq = 6  -> {<<right, top>>, <<left, bottom>>}
          [] sq = 7  -> {<<right, bottom>>}
          [] sq = 8  -> {<<bottom, right>>}
          [] sq = 9  -> {<<top, left>>, <<bottom, right>>}
          [] sq = 10 -> {<<bottom, top>>}
          [] sq = 11 -> {<<bottom, left>>}
          [] sq = 12 -> {<<left, right>>}
          [] sq = 13 -> {<<top, right>>}
          [] sq = 14 -> {<<left, top>>}
          [] OTHER   -> {}

ContourSegments(g) ==
    UNION {SquareSegments(g, r0, c0) :
               r0 \in 0..(g.shape[2] - 2), c0 \in 0..(g.shape[1] - 2)}

RECURSIVE Follow(_, _, _)
\* the contour from v along the segments: it ends where no segment leaves, or
\* closes on its first vertex
Follow(next, v, acc) ==
    IF v \notin DOMAIN next THEN acc
    ELSE IF next[v] = acc[1] THEN Append(acc, acc[1])
    ELSE Follow(next, next[v], Append(acc, next[v]))

VertexLess(a, b) == a[1] < b[1] \/ (a[1] = b[1] /\ a[2] < b[2])

FirstVertex(S) == CHOOSE m \in S : \A t \in S : t = m \/ VertexLess(m, t)

RECURSIVE SortContours(_)
\* the contours as a list, by first vertex in scan order
SortContours(S) ==
    IF S = {} THEN <<>>
    ELSE LET f == FirstVertex({c[1] : c \in S})
             c0 == CHOOSE c \in S : c[1] = f
         IN  <<c0>> \o SortContours(S \ {c0})

FindContours(g) ==
    LET segs   == ContourSegments(g)
        froms  == {s[1] : s \in segs}
        tos    == {s[2] : s \in segs}
        next   == [v \in froms |-> (CHOOSE s \in segs : s[1] = v)[2]]
        open   == {Follow(next, v, <<v>>) : v \in froms \ tos}
        onOpen == UNION {{c[k] : k \in 1..Len(c)} : c \in open}
        loops  == {Follow(next, v, <<v>>) : v \in froms \ onOpen}
        closed == {c \in loops : c[1] = FirstVertex({c[k] : k \in 1..Len(c)})}
    IN  SortContours(open \cup closed)

(***************************************************************************)
(* Plane geometry on integer coordinates.                                  *)
(***************************************************************************)
Cross(a, b) == a[1] * b[2] - a[2] * b[1]

Orient(a, b, c) == (b[1] - a[1]) * (c[2] - a[2]) - (b[2] - a[2]) * (c[1] - a[1])

Dist2(a, b) == (b[1] - a[1]) * (b[1] - a[1]) + (b[2] - a[2]) * (b[2] - a[2])

RingNext(coords, k) == coords[IF k = Len(coords) THEN 1 ELSE k + 1]

\* twice the signed area of the ring through coords (closed on its first point)
Shoelace2(coords) ==
    SeqSum([k \in 1..Len(coords) |-> Cross(coords[k], RingNext(coords, k))])

OnSegment(p, a, b) ==
    /\ Orient(a, b, p) = 0
    /\ (a[1] <= p[1] /\ p[1] <= b[1]) \/ (b[1] <= p[1] /\ p[1] <= a[1])
    /\ (a[2] <= p[2] /\ p[2] <= b[2]) \/ (b[2] <= p[2] /\ p[2] <= a[2])

\* the edge a-b crosses the ray from p towards +x
CrossesRay(p, a, b) ==
    /\ (a[2] > p[2]) # (b[2] > p[2])
    /\ \/ b[2] > a[2] /\ Orient(a, b, p) > 0
       \/ b[2] < a[2] /\ Orient(a, b, p) < 0

InsideOrOn(p, coords) ==
    \/ \E k \in 1..Len(coords) : OnSegment(p, coords[k], RingNext(coords, k))
    \/ Cardinality({k \in 1..Len(coords) :
                       CrossesRay(p, coords[k], RingNext(coords, k))}) % 2 = 1

ProperCross(a, b, c, d) ==
    /\ Orient(a, b, c) * Orient(a, b, d) < 0
    /\ Orient(c, d, a) * Orient(c, d, b) < 0

\* no edge of ring A properly crosses an edge of ring B
NoCrossing(A, B) ==
    \A j \in 1..Len(A), k \in 1..Len(B) :
        ~ProperCross(A[j], RingNext(A, j), B[k], RingNext(B, k))

\* B lies in A (rings that do not cross)
Within(B, A) == \A k \in 1..Len(B) : InsideOrOn(B[k], A)

(***************************************************************************)
(* Polygons (shapely).  Coordinates are world centimetres; areas are kept  *)
(* doubled (the shoelace sum), so that they stay integers.                 *)
(***************************************************************************)
\* px = contour[:, 1] * resolution + x_min, py = contour[:, 0] * resolution + y_min
WorldCoords(contour, xmin, ymin) ==
    [k \in 1..Len(contour) |->
        << (contour[k][2] * resolution) \div 2 + xmin,
           (contour[k][1] * resolution) \div 2 + ymin >>]

\* Polygon(coords) raises ValueError for a ring of fewer than three points
PolygonRaises(contour) == Len(contour) < 3

\* Polygon(np.column_stack((px, py)))
Polygon(coords) == [coords |-> coords, area2 |-> Abs(Shoelace2(coords))]

\* variant: the filter only drops polygons without area
PassesAreaFilter_AnyArea(poly) == poly.area2 > 0

\* poly.area > 0.05
PassesAreaFilter(poly) == poly.area2 > 2 * min_polygon_area

\* poly.buffer(0): a ring that does not cross itself is returned as it is
Buffer0(poly) == CASE NoCrossing(poly.coords, poly.coords) -> poly

\* the polygons kept from the contours: area filter, buffer(0), not empty
FilterPolygons(contours, xmin, ymin) ==
    LET polys == [k \in 1..Len(contours) |->
                     Polygon(WorldCoords(contours[k], xmin, ymin))]
        kept  == SelectSeq(polys, PassesAreaFilter)
    IN  [k \in 1..Len(kept) |-> Buffer0(kept[k])]

\* variant: a ring within another ring is cut out of it as a hole
UnaryUnion_Holes(polys) ==
    LET outer(k) == \A j \in 1..Len(polys) :
                        j = k \/ ~Within(polys[k].coords, polys[j].coords)
        Outer(q) == \E k \in 1..Len(polys) : polys[k] = q /\ outer(k)
        Cut(q) == [coords |-> q.coords,
                   area2 |-> q.area2
                       - SeqSum([j \in 1..Len(polys) |->
                                    IF polys[j] # q /\ Within(polys[j].coords, q.coords)
                                    THEN polys[j].area2 ELSE 0])]
        kept == SelectSeq(polys, Outer)
    IN  [kind |-> "union", polys |-> polys,
         parts |-> [k \in 1..Len(kept) |-> Cut(kept[k])]]

\* unary_union(polys) of rings that pairwise do not cross: the rings that lie
\* in no other ring, each with what it encloses
UnaryUnion(polys) ==
    LET outer(k) == \A j \in 1..Len(polys) :
                        j = k \/ ~Within(polys[k].coords, polys[j].coords)
        Outer(q) == \E k \in 1..Len(polys) : polys[k] = q /\ outer(k)
    IN  CASE \A j, k \in 1..Len(polys) :
                 j = k \/ NoCrossing(polys[j].coords, polys[k].coords) ->
             [kind |-> "union", polys |-> polys, parts |-> SelectSeq(polys, Outer)]

\* geom.bounds = (minx, miny, maxx, maxy) of a set of coordinates
BoundsOf(P) ==
    << SetMin({c[1] : c \in P}), SetMin({c[2] : c \in P}),
       SetMax({c[1] : c \in P}), SetMax({c[2] : c \in P}) >>

(***************************************************************************)
(* MultiPoint(floor_xy).convex_hull: the hull vertices, counter-clockwise  *)
(* from the lowest point (one vertex for a Point, two for a LineString).   *)
(***************************************************************************)
\* only the leftmost and the rightmost point of each row can be a hull vertex
RowExtremes(P) ==
    UNION {LET xs == {p[1] : p \in {q \in P : q[2] = y}}
           IN  {<<SetMin(xs), y>>, <<SetMax(xs), y>>} : y \in {p[2] : p \in P}}

HullNext(P, p) ==
    CHOOSE q \in P \ {p} :
        \A r \in P \ {p, q} :
            \/ Orient(p, q, r) > 0
            \/ Orient(p, q, r) = 0 /\ Dist2(p, r) <= Dist2(p, q)

RECURSIVE HullWalk(_, _, _)
HullWalk(P, p, acc) ==
    LET q == HullNext(P, p)
    IN  IF q = acc[1] THEN acc ELSE HullWalk(P, q, Append(acc, q))

ConvexHull(xy) ==
    LET P     == RowExtremes(xy)
        start == CHOOSE p \in P : \A q \in P :
                     p[2] < q[2] \/ (p[2] = q[2] /\ p[1] <= q[1])
    IN  IF Cardinality(P) = 1 THEN <<start>> ELSE HullWalk(P, start, <<start>>)

\* the XY columns of the rows, as a set of positions
XYOf(rows) == {<<rows[k].x, rows[k].y>> : k \in 1..Len(rows)}

\* MultiPoint(xy).convex_hull
HullRegion(xy) ==
    [kind |-> "hull", polys |-> <<>>, parts |-> <<Polygon(ConvexHull(xy))>>]

(***************************************************************************)
(* STEP 5: measure_polygon(poly) -> (width, height, area), area doubled.   *)
(***************************************************************************)
RegionCoords(region) ==
    UNION {{region.parts[k].coords[j] : j \in 1..Len(region.parts[k].coords)} :
               k \in 1..Len(region.parts)}

\* what measure_polygon returns for an empty geometry when bounds is
\* (nan, nan, nan, nan): abs(nan - nan) twice and the area 0.0
NanMeasurement == [width_is_nan |-> TRUE, height_is_nan |-> TRUE, area2 |-> 0]

\* variant: only the first component of the region is measured
measure_polygon_FirstPart(region) ==
    IF region.parts = <<>> THEN NanMeasurement
    ELSE LET first == region.parts[1]
             bounds == BoundsOf({first.coords[j] : j \in 1..Len(first.coords)})
         IN  [width  |-> Abs(bounds[3] - bounds[1]),
              height |-> Abs(bounds[4] - bounds[2]),
              area2  |-> first.area2]

measure_polygon(region) ==
    IF region.parts = <<>> THEN NanMeasurement
    ELSE LET bounds == BoundsOf(RegionCoords(region))
         IN  [width  |-> Abs(bounds[3] - bounds[1]),
              height |-> Abs(bounds[4] - bounds[2]),
              area2  |-> SeqSum([k \in 1..Len(region.parts) |-> region.parts[k].area2])]

(***************************************************************************)
(* The clouds the model reads from PLY_FILE.  A cloud is a floor layer at  *)
(* z = 0 and wall layers higher up:                            *)
(*   floor: a w x h block of positions one cell apart, m rows on each,     *)
(*          optionally with four single rows on the corners of a larger    *)
(*          rectangle around it;                                           *)
(*   wall layers, one kind each:                                           *)
(*     "few"    300 rows on one position inside the block,                 *)
(*     "dot"    500 rows on one position inside the block,                 *)
(*     "corner" 500 rows on the origin corner,                             *)
(*     "far"    500 rows far outside the floor extent,                     *)
(*     "wall"   exactly 500 rows spread over the positions of the block;   *)
(*   the whole cloud moved by a raw offset.                                *)
(***************************************************************************)
MaxMult == 2
MaxShift == 1

BlockSizes == {<<1, 1>>, <<1, 3>>, <<2, 3>>, <<12, 11>>}

Heights == <<40, 100, 250>>

CeilingHeight == 300

WallKinds == {"few", "dot", "corner", "far", "wall"}

BlockRows(x0, y0, w, h, z, n) ==
    [k \in 1..(w * h) |->
        Row(x0 + resolution * ((k - 1) % w), y0 + resolution * ((k - 1) \div w), z, n)]

\* the offset of the block: with corner rows the block is centred among them
BlockOffset(f) == IF f.corners THEN 3 * resolution ELSE 0

FloorLayer(f) ==
    LET o == BlockOffset(f)
        X == resolution * (f.w + 5)
        Y == resolution * (f.h + 5)
    IN  BlockRows(o, o, f.w, f.h, 0, f.m)
        \o (IF f.corners
            THEN <<Row(0, 0, 0, 1), Row(X, 0, 0, 1), Row(0, Y, 0, 1), Row(X, Y, 0, 1)>>
            ELSE <<>>)

WallLayer(f, kind, z) ==
    LET o == BlockOffset(f)
    IN  CASE kind = "few"    -> <<Row(o, o, z, 300)>>
          [] kind = "dot"    -> <<Row(o, o, z, min_stratum_points)>>
          [] kind = "corner" -> <<Row(0, 0, z, min_stratum_points)>>
          [] kind = "far"    -> <<Row(40, 40, z, min_stratum_points)>>
          [] kind = "wall"   ->
                 BlockRows(o, o, f.w, f.h, z, 3)
                 \o <<Row(o, o, z, min_stratum_points - 3 * f.w * f.h)>>
          [] OTHER           -> <<>>

RECURSIVE Layers(_, _, _)
Layers(f, plan, k) ==
    IF k = 0 THEN <<>>
    ELSE Layers(f, plan, k - 1) \o WallLayer(f, plan[k], Heights[k])

Shifted(rows, d) ==
    [k \in 1..Len(rows) |->
        Row(rows[k].x + d[1], rows[k].y + d[2], rows[k].z + d[3], rows[k].n)]

Floors ==
    {[w |-> b[1], h |-> b[2], m |-> m, corners |-> c] :
        b \in BlockSizes, m \in 1..MaxMult, c \in BOOLEAN}

\* at most one wall layer, or any middle layer under a full highest one
WallPlans ==
    {plan \in [1..Len(Heights) -> WallKinds \cup {"none"}] :
        \/ Cardinality({k \in 1..Len(Heights) : plan[k] # "none"}) <= 1
        \/ plan[1] = "none" /\ plan[3] = "wall"}

Shifts == {<<d, -d, 3 * d>> : d \in (0 - MaxShift)..MaxShift}

Ceiling(c) == IF c THEN <<Row(0, 0, CeilingHeight, 1)>> ELSE <<>>

\* the near-floor covariance of the cloud is NaN or axis-parallel
Modelled(rows) ==
    LET cov == CovMatrix(FloorSelect(Normalize(rows), floor_percentile))
    IN  cov.nan \/ DiagonalCov(cov)

Clouds ==
    {<<>>} \cup
    {c \in {FloorLayer(f) \o Layers(f, plan, Len(Heights)) \o Ceiling(top) :
                f \in Floors, plan \in WallPlans, top \in BOOLEAN} \cup
            {Shifted(FloorLayer(f) \o Ceiling(TRUE), d) : f \in Floors, d \in Shifts} :
        Modelled(c)}

(***************************************************************************)
(* The script, one action per statement group.                             *)
(***************************************************************************)
NoRegion == [kind |-> "none", polys |-> <<>>, parts |-> <<>>]

NoGrid == [shape |-> <<0, 0>>, count |-> <<>>]

NoBins == [lo |-> 0, n |-> 0]

Identity2 == << <<1, 0>>, <<0, 1>> >>

Init ==
    /\ pc = "load"
    /\ error = "none"
    /\ pcd \in Clouds
    /\ points = <<>>
    /\ points_normalized = <<>>
    /\ floor_points_temp = <<>>
    /\ rotation_matrix_2d = Identity2
    /\ floor_points = <<>>
    /\ x_bins = NoBins
    /\ y_bins = NoBins
    /\ x_min = 0
    /\ y_min = 0
    /\ grid = NoGrid
    /\ polygons = <<>>
    /\ merged_floor = NoRegion
    /\ fallback = FALSE
    /\ z_min = 0
    /\ z_max = 0
    /\ i = 0
    /\ wall_slices = <<>>
    /\ measurements = <<>>
    /\ TaggerIdle

\* an uncaught exception ends the script
Raise(exc) == pc' = "aborted" /\ error' = exc

\* STEP 1: pcd = o3d.io.read_point_cloud(PLY_FILE); points = np.asarray(pcd.points)
Load ==
    /\ pc = "load"
    /\ points' = pcd
    /\ pc' = "normalize"
    /\ UNCHANGED <<error, pcd, points_normalized, floor_points_temp,
                   rotation_matrix_2d, floor_points, x_bins, y_bins, x_min, y_min,
                   grid, polygons, merged_floor, fallback, z_min, z_max, i,
                   wall_slices, measurements>>
    /\ UNCHANGED tagger_vars

\* variant: the minimum of an empty array raises nothing and the script ends
NormalizeCoordinates_EmptyPasses ==
    /\ pc = "normalize"
    /\ IF Len(points) = 0
       THEN /\ pc' = "done"
            /\ UNCHANGED <<error, points, points_normalized>>
       ELSE /\ points_normalized' = Normalize(points)
            /\ points' = Normalize(points)
            /\ pc' = "align"
            /\ UNCHANGED error
    /\ UNCHANGED <<pcd, floor_points_temp, rotation_matrix_2d, floor_points,
                   x_bins, y_bins, x_min, y_min, grid, polygons, merged_floor,
                   fallback, z_min, z_max, i, wall_slices, measurements>>
    /\ UNCHANGED tagger_vars

\* NORMALIZE COORDINATES; points.min(axis=0) of an empty array raises ValueError
NormalizeCoordinates ==
    /\ pc = "normalize"
    /\ IF Len(points) = 0
       THEN /\ Raise("ValueError")
            /\ UNCHANGED <<points, points_normalized>>
       ELSE /\ points_normalized' = Normalize(points)
            /\ points' = Normalize(points)
            /\ pc' = "align"
            /\ UNCHANGED error
    /\ UNCHANGED <<pcd, floor_points_temp, rotation_matrix_2d, floor_points,
                   x_bins, y_bins, x_min, y_min, grid, polygons, merged_floor,
                   fallback, z_min, z_max, i, wall_slices, measurements>>
    /\ UNCHANGED tagger_vars

\* variant: the eigenvectors come out with either sign, from one run to the next
AutoAlign_EitherSign ==
    /\ pc = "align"
    /\ \E sign \in {1, -1} :
           LET temp       == FloorSelect(points, floor_percentile)
               mean_xy    == MeanXY(temp)
               cov_matrix == CovMatrix(temp)
               r          == RotationMatrix(cov_matrix)
               rotation   == << <<sign * r[1][1], sign * r[1][2]>>,
                                <<sign * r[2][1], sign * r[2][2]>> >>
               aligned    == Align(points, mean_xy, rotation)
           IN  /\ floor_points_temp' = temp
               /\ IF cov_matrix.nan
                  THEN /\ Raise("LinAlgError")
                       /\ UNCHANGED <<points, points_normalized, rotation_matrix_2d>>
                  ELSE /\ rotation_matrix_2d' = rotation
                       /\ points' = aligned
                       /\ points_normalized' = aligned
                       /\ pc' = "floor_slice"
                       /\ UNCHANGED error
    /\ UNCHANGED <<pcd, floor_points, x_bins, y_bins, x_min, y_min, grid,
                   polygons, merged_floor, fallback, z_min, z_max, i, wall_slices,
                   measurements>>
    /\ UNCHANGED tagger_vars

\* STEP 2: AUTO-ALIGN USING PCA.  points and points_normalized name the same
\* array, which points[:, :2] = ... writes in place.  np.linalg.eig raises
\* LinAlgError on a NaN covariance.
AutoAlign ==
    /\ pc = "align"
    /\ LET temp       == FloorSelect(points, floor_percentile)
           mean_xy    == MeanXY(temp)
           cov_matrix == CovMatrix(temp)
           rotation   == RotationMatrix(cov_matrix)
           aligned    == Align(points, mean_xy, rotation)
       IN  /\ floor_points_temp' = temp
           /\ IF cov_matrix.nan
              THEN /\ Raise("LinAlgError")
                   /\ UNCHANGED <<points, points_normalized, rotation_matrix_2d>>
              ELSE /\ rotation_matrix_2d' = rotation
                   /\ points' = aligned
                   /\ points_normalized' = aligned
                   /\ pc' = "floor_slice"
                   /\ UNCHANGED error
    /\ UNCHANGED <<pcd, floor_points, x_bins, y_bins, x_min, y_min, grid,
                   polygons, merged_floor, fallback, z_min, z_max, i, wall_slices,
                   measurements>>
    /\ UNCHANGED tagger_vars

\* variant: the floor band is selected with the percentile of the fallback
FloorSlice_FallbackPercentile ==
    /\ pc = "floor_slice"
    /\ floor_points' = FloorSelect(points, fallback_percentile)
    /\ pc' = "floor_outline"
    /\ UNCHANGED <<error, pcd, points, points_normalized, floor_points_temp,
                   rotation_matrix_2d, x_bins, y_bins, x_min, y_min, grid,
                   polygons, merged_floor, fallback, z_min, z_max, i, wall_slices,
                   measurements>>
    /\ UNCHANGED tagger_vars

\* variant: the floor band is cut at the percentile itself, without the margin
FloorSlice_NoMargin ==
    /\ pc = "floor_slice"
    /\ floor_points' =
           LET Below(p) == 100 * p.z < Percentile100(points, floor_percentile)
           IN  SelectSeq(points, Below)
    /\ pc' = "floor_outline"
    /\ UNCHANGED <<error, pcd, points, points_normalized, floor_points_temp,
                   rotation_matrix_2d, x_bins, y_bins, x_min, y_min, grid,
                   polygons, merged_floor, fallback, z_min, z_max, i, wall_slices,
                   measurements>>
    /\ UNCHANGED tagger_vars

\* STEP 3: ORIENT AND SLICE TO FLOOR PLANE
FloorSlice ==
    /\ pc = "floor_slice"
    /\ floor_points' = FloorSelect(points, floor_percentile)
    /\ pc' = "floor_outline"
    /\ UNCHANGED <<error, pcd, points, points_normalized, floor_points_temp,
                   rotation_matrix_2d, x_bins, y_bins, x_min, y_min, grid,
                   polygons, merged_floor, fallback, z_min, z_max, i, wall_slices,
                   measurements>>
    /\ UNCHANGED tagger_vars

\* One band through np.histogram2d, the threshold, find_contours, Polygon,
\* the area filter and buffer(0), on the bins xb, yb:
\*   exc   the exception raised on the way, "none" when the band goes through
\*   grid  the density grid (when np.histogram2d returned one)
\*   polys the valid polygons (when nothing was raised)
Band(rows, xb, yb, xmin, ymin) ==
    IF xb.n = 0 \/ yb.n = 0
    THEN [exc |-> "IndexError", grid |-> [shape |-> <<0, 0>>, count |-> <<>>],
          polys |-> <<>>]
    ELSE LET g == Histogram2d(rows, xb, yb)
         IN  IF g.shape[1] < 2 \/ g.shape[2] < 2
             THEN [exc |-> "ValueError", grid |-> g, polys |-> <<>>]
             ELSE LET contours == FindContours(g)
                  IN  IF \E k \in 1..Len(contours) : PolygonRaises(contours[k])
                      THEN [exc |-> "ValueError", grid |-> g, polys |-> <<>>]
                      ELSE [exc |-> "none", grid |-> g,
                            polys |-> FilterPolygons(contours, xmin, ymin)]

\* STEP 3: BUILD FLOOR PLAN OUTLINE, up to the list of valid polygons
FloorOutline ==
    /\ pc = "floor_outline"
    /\ LET xmin == AxisMin(floor_points, "x")
           ymin == AxisMin(floor_points, "y")
           xb   == Arange(xmin, AxisMax(floor_points, "x"))
           yb   == Arange(ymin, AxisMax(floor_points, "y"))
           band == Band(floor_points, xb, yb, xmin, ymin)
       IN  /\ x_min' = xmin
           /\ y_min' = ymin
           /\ x_bins' = xb
           /\ y_bins' = yb
           /\ IF band.exc # "none"
              THEN /\ Raise(band.exc)
                   /\ grid' = IF band.exc = "IndexError" THEN grid ELSE band.grid
                   /\ UNCHANGED polygons
              ELSE /\ grid' = band.grid
                   /\ polygons' = band.polys
                   /\ pc' = "floor_merge"
                   /\ UNCHANGED error
    /\ UNCHANGED <<pcd, points, points_normalized, floor_points_temp,
                   rotation_matrix_2d, floor_points, merged_floor, fallback,
                   z_min, z_max, i, wall_slices, measurements>>
    /\ UNCHANGED tagger_vars

\* variant: a floor band below the minimum count is skipped like a wall band
FloorMerge_MinimumCount ==
    /\ pc = "floor_merge"
    /\ LET looser == FloorSelect(points, fallback_percentile)
       IN  IF NumRows(floor_points) < min_stratum_points
           THEN UNCHANGED <<merged_floor, floor_points, fallback>>
           ELSE IF polygons # <<>>
           THEN /\ merged_floor' = UnaryUnion(polygons)
                /\ UNCHANGED <<floor_points, fallback>>
           ELSE /\ floor_points' = looser
                /\ merged_floor' = HullRegion(XYOf(looser))
                /\ fallback' = TRUE
    /\ pc' = "wall_setup"
    /\ UNCHANGED <<error, pcd, points, points_normalized, floor_points_temp,
                   rotation_matrix_2d, x_bins, y_bins, x_min, y_min, grid,
                   polygons, z_min, z_max, i, wall_slices, measurements>>
    /\ UNCHANGED tagger_vars

\* variant: the fallback keeps the selection of the floor band
FloorMerge_SameSelection ==
    /\ pc = "floor_merge"
    /\ LET looser == FloorSelect(points, floor_percentile)
       IN  IF polygons # <<>>
           THEN /\ merged_floor' = UnaryUnion(polygons)
                /\ UNCHANGED <<floor_points, fallback>>
           ELSE /\ floor_points' = looser
                /\ merged_floor' = HullRegion(XYOf(looser))
                /\ fallback' = TRUE
    /\ pc' = "wall_setup"
    /\ UNCHANGED <<error, pcd, points, points_normalized, floor_points_temp,
                   rotation_matrix_2d, x_bins, y_bins, x_min, y_min, grid,
                   polygons, z_min, z_max, i, wall_slices, measurements>>
    /\ UNCHANGED tagger_vars

\* variant: the fallback also derives the bin edges anew, from its selection
FloorMerge_Rebin ==
    /\ pc = "floor_merge"
    /\ LET looser == FloorSelect(points, fallback_percentile)
       IN  IF polygons # <<>>
           THEN /\ merged_floor' = UnaryUnion(polygons)
                /\ UNCHANGED <<floor_points, fallback, x_bins, y_bins, x_min, y_min>>
           ELSE /\ floor_points' = looser
                /\ merged_floor' = HullRegion(XYOf(looser))
                /\ fallback' = TRUE
                /\ x_min' = AxisMin(looser, "x")
                /\ y_min' = AxisMin(looser, "y")
                /\ x_bins' = Arange(AxisMin(looser, "x"), AxisMax(looser, "x"))
                /\ y_bins' = Arange(AxisMin(looser, "y"), AxisMax(looser, "y"))
    /\ pc' = "wall_setup"
    /\ UNCHANGED <<error, pcd, points, points_normalized, floor_points_temp,
                   rotation_matrix_2d, grid, polygons, z_min, z_max, i,
                   wall_slices, measurements>>
    /\ UNCHANGED tagger_vars

\* Safe floor extraction: the union, or the convex hull fallback
FloorMerge ==
    /\ pc = "floor_merge"
    /\ LET looser == FloorSelect(points, fallback_percentile)
       IN  IF polygons # <<>>
           THEN /\ merged_floor' = UnaryUnion(polygons)
                /\ UNCHANGED <<floor_points, fallback>>
           ELSE /\ floor_points' = looser
                /\ merged_floor' = HullRegion(XYOf(looser))
                /\ fallback' = TRUE
    /\ pc' = "wall_setup"
    /\ UNCHANGED <<error, pcd, points, points_normalized, floor_points_temp,
                   rotation_matrix_2d, x_bins, y_bins, x_min, y_min, grid,
                   polygons, z_min, z_max, i, wall_slices, measurements>>
    /\ UNCHANGED tagger_vars

\* STEP 4: z range, empty wall_slices
WallSetup ==
    /\ pc = "wall_setup"
    /\ z_min' = AxisMin(points, "z")
    /\ z_max' = AxisMax(points, "z")
    /\ wall_slices' = <<>>
    /\ i' = 0
    /\ pc' = "wall_loop"
    /\ UNCHANGED <<error, pcd, points, points_normalized, floor_points_temp,
                   rotation_matrix_2d, floor_points, x_bins, y_bins, x_min, y_min,
                   grid, polygons, merged_floor, fallback, measurements>>
    /\ UNCHANGED tagger_vars

\* points[(z_values >= z_low) & (z_values < z_high)] with
\* z_low = z_min + k * slice_thickness, z_high = z_low + slice_thickness,
\* slice_thickness = (z_max - z_min) / n_slices; both sides times n_slices
InBand(z, zmin, zmax, k) ==
    /\ n_slices * z >= n_slices * zmin + k * (zmax - zmin)
    /\ n_slices * z < n_slices * zmin + (k + 1) * (zmax - zmin)

\* variant: the upper limit of a band belongs to the band
SlicePoints_Closed(rows, zmin, zmax, k) ==
    LET Keep(p) ==
            /\ n_slices * p.z >= n_slices * zmin + k * (zmax - zmin)
            /\ n_slices * p.z <= n_slices * zmin + (k + 1) * (zmax - zmin)
    IN  SelectSeq(rows, Keep)

SlicePoints(rows, zmin, zmax, k) ==
    LET Keep(p) == InBand(p.z, zmin, zmax, k)
    IN  SelectSeq(rows, Keep)

\* variant: a band of exactly the minimum count is skipped too
WallBand_SkipAtMinimum ==
    /\ pc = "wall_loop"
    /\ i < n_slices
    /\ LET slice_points == SlicePoints(points, z_min, z_max, i)
           band == Band(slice_points, x_bins, y_bins, x_min, y_min)
       IN  IF NumRows(slice_points) <= min_stratum_points
           THEN UNCHANGED <<pc, error, grid, wall_slices>> /\ i' = i + 1
           ELSE IF band.exc # "none"
           THEN /\ Raise(band.exc)
                /\ grid' = band.grid
                /\ UNCHANGED <<i, wall_slices>>
           ELSE /\ grid' = band.grid
                /\ wall_slices' =
                       IF band.polys # <<>>
                       THEN Append(wall_slices,
                                [i |-> i, region |-> UnaryUnion(band.polys),
                                 slice_points |-> slice_points])
                       ELSE wall_slices
                /\ i' = i + 1
                /\ UNCHANGED <<pc, error>>
    /\ UNCHANGED <<pcd, points, points_normalized, floor_points_temp,
                   rotation_matrix_2d, floor_points, x_bins, y_bins, x_min, y_min,
                   polygons, merged_floor, fallback, z_min, z_max, measurements>>
    /\ UNCHANGED tagger_vars

\* variant: a band without valid polygons gets the convex hull of its rows
WallBand_HullFallback ==
    /\ pc = "wall_loop"
    /\ i < n_slices
    /\ LET slice_points == SlicePoints(points, z_min, z_max, i)
           band == Band(slice_points, x_bins, y_bins, x_min, y_min)
       IN  IF NumRows(slice_points) < min_stratum_points
           THEN UNCHANGED <<pc, error, grid, wall_slices>> /\ i' = i + 1
           ELSE IF band.exc # "none"
           THEN /\ Raise(band.exc)
                /\ grid' = band.grid
                /\ UNCHANGED <<i, wall_slices>>
           ELSE /\ grid' = band.grid
                /\ wall_slices' =
                       Append(wall_slices,
                           [i |-> i,
                            region |-> IF band.polys # <<>>
                                       THEN UnaryUnion(band.polys)
                                       ELSE HullRegion(XYOf(slice_points)),
                            slice_points |-> slice_points])
                /\ i' = i + 1
                /\ UNCHANGED <<pc, error>>
    /\ UNCHANGED <<pcd, points, points_normalized, floor_points_temp,
                   rotation_matrix_2d, floor_points, x_bins, y_bins, x_min, y_min,
                   polygons, merged_floor, fallback, z_min, z_max, measurements>>
    /\ UNCHANGED tagger_vars

\* variant: every band is rasterized on the edges of its own extent
WallBand_OwnBins ==
    /\ pc = "wall_loop"
    /\ i < n_slices
    /\ LET slice_points == SlicePoints(points, z_min, z_max, i)
           xmin == AxisMin(slice_points, "x")
           ymin == AxisMin(slice_points, "y")
           band == Band(slice_points,
                        Arange(xmin, AxisMax(slice_points, "x")),
                        Arange(ymin, AxisMax(slice_points, "y")), xmin, ymin)
       IN  IF NumRows(slice_points) < min_stratum_points
           THEN UNCHANGED <<pc, error, grid, wall_slices>> /\ i' = i + 1
           ELSE IF band.exc # "none"
           THEN /\ Raise(band.exc)
                /\ grid' = band.grid
                /\ UNCHANGED <<i, wall_slices>>
           ELSE /\ grid' = band.grid
                /\ wall_slices' =
                       IF band.polys # <<>>
                       THEN Append(wall_slices,
                                [i |-> i, region |-> UnaryUnion(band.polys),
                                 slice_points |-> slice_points])
                       ELSE wall_slices
                /\ i' = i + 1
                /\ UNCHANGED <<pc, error>>
    /\ UNCHANGED <<pcd, points, points_normalized, floor_points_temp,
                   rotation_matrix_2d, floor_points, x_bins, y_bins, x_min, y_min,
                   polygons, merged_floor, fallback, z_min, z_max, measurements>>
    /\ UNCHANGED tagger_vars

\* one pass of the wall loop body
WallBand ==
    /\ pc = "wall_loop"
    /\ i < n_slices
    /\ LET slice_points == SlicePoints(points, z_min, z_max, i)
           band == Band(slice_points, x_bins, y_bins, x_min, y_min)
       IN  IF NumRows(slice_points) < min_stratum_points
           THEN UNCHANGED <<pc, error, grid, wall_slices>> /\ i' = i + 1
           ELSE IF band.exc # "none"
           THEN /\ Raise(band.exc)
                /\ grid' = band.grid
                /\ UNCHANGED <<i, wall_slices>>
           ELSE /\ grid' = band.grid
                /\ wall_slices' =
                       IF band.polys # <<>>
                       THEN Append(wall_slices,
                                [i |-> i, region |-> UnaryUnion(band.polys),
                                 slice_points |-> slice_points])
                       ELSE wall_slices
                /\ i' = i + 1
                /\ UNCHANGED <<pc, error>>
    /\ UNCHANGED <<pcd, points, points_normalized, floor_points_temp,
                   rotation_matrix_2d, floor_points, x_bins, y_bins, x_min, y_min,
                   polygons, merged_floor, fallback, z_min, z_max, measurements>>
    /\ UNCHANGED tagger_vars

\* the loop is over
WallLoopEnd ==
    /\ pc = "wall_loop"
    /\ i = n_slices
    /\ pc' = "measure"
    /\ UNCHANGED <<error, pcd, points, points_normalized, floor_points_temp,
                   rotation_matrix_2d, floor_points, x_bins, y_bins, x_min, y_min,
                   grid, polygons, merged_floor, fallback, z_min, z_max, i,
                   wall_slices, measurements>>
    /\ UNCHANGED tagger_vars

\* STEP 5: AUTO MEASUREMENTS, the floor and then every wall slice
AutoMeasure ==
    /\ pc = "measure"
    /\ measurements' =
           <<measure_polygon(merged_floor)>>
           \o [k \in 1..Len(wall_slices) |-> measure_polygon(wall_slices[k].region)]
    /\ pc' = "export"
    /\ UNCHANGED <<error, pcd, points, points_normalized, floor_points_temp,
                   rotation_matrix_2d, floor_points, x_bins, y_bins, x_min, y_min,
                   grid, polygons, merged_floor, fallback, z_min, z_max, i,
                   wall_slices>>
    /\ UNCHANGED tagger_vars

\* STEP 6: VISUALIZE AND EXPORT SEPARATELY reads the regions and the point
\* subsets and writes files; it changes nothing of the pipeline's values
Export ==
    /\ pc = "export"
    /\ pc' = "done"
    /\ UNCHANGED <<error, pcd, points, points_normalized, floor_points_temp,
                   rotation_matrix_2d, floor_points, x_bins, y_bins, x_min, y_min,
                   grid, polygons, merged_floor, fallback, z_min, z_max, i,
                   wall_slices, measurements>>
    /\ UNCHANGED tagger_vars

Next ==
    \/ Load
    \/ NormalizeCoordinates
    \/ AutoAlign
    \/ FloorSlice
    \/ FloorOutline
    \/ FloorMerge
    \/ WallSetup
    \/ WallBand
    \/ WallLoopEnd
    \/ AutoMeasure
    \/ Export

Spec == Init /\ [][Next]_vars

(***************************************************************************)
(* measure_polygon(poly) on its own: the function is called with one       *)
(* geometry and returns, or raises.  The geometries are what unary_union   *)
(* and convex_hull return: unions of one or two rectangles, side by side   *)
(* or one within the other, the hull of one or two points, and the empty   *)
(* geometry unary_union([]).  For the empty geometry poly.bounds is        *)
(* (nan, nan, nan, nan) in shapely 2 and () in shapely 1, where bounds[2]  *)
(* raises IndexError; the script pins no version.                          *)
(***************************************************************************)
MaxSide == 3

Rect(x0, y0, w, h) ==
    Polygon(<<<<x0, y0>>, <<x0 + w, y0>>, <<x0 + w, y0 + h>>, <<x0, y0 + h>>>>)

EmptyRegion == [kind |-> "union", polys |-> <<>>, parts |-> <<>>]

MeasuredRegions ==
    LET sizes == (1..MaxSide) \X (1..MaxSide)
    IN  {UnaryUnion(<<Rect(0, 0, a[1], a[2])>>) : a \in sizes}
        \cup {UnaryUnion(<<Rect(0, 0, a[1], a[2]),
                           Rect(MaxSide + 1, y0, b[1], b[2])>>) :
                  a \in sizes, b \in sizes, y0 \in 0..1}
        \cup {UnaryUnion(<<Rect(0, 0, a[1] + 2, a[2] + 2), Rect(1, 1, a[1], a[2])>>) :
                  a \in sizes}
        \cup {HullRegion({<<0, 0>>, <<a[1] - 1, a[2] - 1>>}) : a \in sizes}
        \cup {EmptyRegion}

MeasureInit ==
    /\ pc = "call"
    /\ error = "none"
    /\ merged_floor \in MeasuredRegions
    /\ pcd = <<>>
    /\ points = <<>>
    /\ points_normalized = <<>>
    /\ floor_points_temp = <<>>
    /\ rotation_matrix_2d = Identity2
    /\ floor_points = <<>>
    /\ x_bins = NoBins
    /\ y_bins = NoBins
    /\ x_min = 0
    /\ y_min = 0
    /\ grid = NoGrid
    /\ polygons = <<>>
    /\ fallback = FALSE
    /\ z_min = 0
    /\ z_max = 0
    /\ i = 0
    /\ wall_slices = <<>>
    /\ measurements = <<>>
    /\ TaggerIdle

\* width, height, area = measure_polygon(poly)
MeasureCall ==
    /\ pc = "call"
    /\ IF merged_floor.parts = <<>>
       THEN \/ /\ measurements' = <<measure_polygon(merged_floor)>>
               /\ pc' = "return"
               /\ UNCHANGED error
            \/ /\ Raise("IndexError")
               /\ UNCHANGED measurements
       ELSE /\ measurements' = <<measure_polygon(merged_floor)>>
            /\ pc' = "return"
            /\ UNCHANGED error
    /\ UNCHANGED <<pcd, points, points_normalized, floor_points_temp,
                   rotation_matrix_2d, floor_points, x_bins, y_bins, x_min, y_min,
                   grid, polygons, merged_floor, fallback, z_min, z_max, i,
                   wall_slices>>
    /\ UNCHANGED tagger_vars

MeasureNext == MeasureCall

MeasureSpec == MeasureInit /\ [][MeasureNext]_vars

(***************************************************************************)
(* The script on an exact floor plane: a dense grid of points over a       *)
(* rectangle of sides 4 : 3 at z = 0, every cell of the occupancy grid     *)
(* holding more than occupancy_minimum points, and sparse points at        *)
(* CeilingHeight.  The rectangle is 4u x 3u for a unit u, the points are   *)
(* s apart with m points on every position.                                *)
(***************************************************************************)
MaxPlane == 6

PlaneRows(u, s, m) ==
    LET nx == (4 * u) \div s + 1
        ny == (3 * u) \div s + 1
    IN  [k \in 1..(nx * ny) |-> Row(s * ((k - 1) % nx), s * ((k - 1) \div nx), 0, m)]

\* one point over a corner, or one over each corner
PlaneCeiling(u, all) ==
    <<Row(0, 0, CeilingHeight, 1)>>
    \o (IF all THEN <<Row(4 * u, 0, CeilingHeight, 1), Row(0, 3 * u, CeilingHeight, 1),
                      Row(4 * u, 3 * u, CeilingHeight, 1)>>
        ELSE <<>>)

PlaneClouds ==
    {PlaneRows(u, 1, m) \o PlaneCeiling(u, all) :
         u \in 2..MaxPlane, m \in 1..2, all \in BOOLEAN}
    \cup {PlaneRows(u, resolution, 2) \o PlaneCeiling(u, all) :
              u \in {v \in 2..MaxPlane : v % 2 = 0}, all \in BOOLEAN}

PlaneInit ==
    /\ pc = "load"
    /\ error = "none"
    /\ pcd \in PlaneClouds
    /\ points = <<>>
    /\ points_normalized = <<>>
    /\ floor_points_temp = <<>>
    /\ rotation_matrix_2d = Identity2
    /\ floor_points = <<>>
    /\ x_bins = NoBins
    /\ y_bins = NoBins
    /\ x_min = 0
    /\ y_min = 0
    /\ grid = NoGrid
    /\ polygons = <<>>
    /\ merged_floor = NoRegion
    /\ fallback = FALSE
    /\ z_min = 0
    /\ z_max = 0
    /\ i = 0
    /\ wall_slices = <<>>
    /\ measurements = <<>>
    /\ TaggerIdle

PlaneSpec == PlaneInit /\ [][Next]_vars

(***************************************************************************)
(* unary_union(polys) on its own, on lists of one to three rectangles that *)
(* do not cross: side by side, one within the other, or both.              *)
(***************************************************************************)
UnionInputs ==
    LET sizes == (1..MaxSide) \X (1..MaxSide)
    IN  {<<Rect(0, 0, a[1], a[2])>> : a \in sizes}
        \cup {<<Rect(0, 0, a[1], a[2]), Rect(MaxSide + 1, y0, b[1], b[2])>> :
                  a \in sizes, b \in sizes, y0 \in 0..1}
        \cup {<<Rect(0, 0, a[1] + 2, a[2] + 2), Rect(1, 1, a[1], a[2])>> : a \in sizes}
        \cup {<<Rect(1, 1, a[1], a[2]), Rect(MaxSide + 3, 0, b[1], b[2]),
                Rect(0, 0, a[1] + 2, a[2] + 2)>> : a \in sizes, b \in sizes}

UnionInit ==
    /\ pc = "union_call"
    /\ error = "none"
    /\ polygons \in UnionInputs
    /\ pcd = <<>>
    /\ points = <<>>
    /\ points_normalized = <<>>
    /\ floor_points_temp = <<>>
    /\ rotation_matrix_2d = Identity2
    /\ floor_points = <<>>
    /\ x_bins = NoBins
    /\ y_bins = NoBins
    /\ x_min = 0
    /\ y_min = 0
    /\ grid = NoGrid
    /\ merged_floor = NoRegion
    /\ fallback = FALSE
    /\ z_min = 0
    /\ z_max = 0
    /\ i = 0
    /\ wall_slices = <<>>
    /\ measurements = <<>>
    /\ TaggerIdle

\* merged_floor = unary_union(polygons)
UnionCall ==
    /\ pc = "union_call"
    /\ merged_floor' = UnaryUnion(polygons)
    /\ pc' = "union_return"
    /\ UNCHANGED <<error, pcd, points, points_normalized, floor_points_temp,
                   rotation_matrix_2d, floor_points, x_bins, y_bins, x_min, y_min,
                   grid, polygons, fallback, z_min, z_max, i, wall_slices,
                   measurements>>
    /\ UNCHANGED tagger_vars

UnionNext == UnionCall

UnionSpec == UnionInit /\ [][UnionNext]_vars

(***************************************************************************)
(* The tagger (main.py): src/core/tag_manager.py, src/ui/main_window.py    *)
(* and src/ui/panels/photo_panel.py.  A tag is [id, text]: its id, a       *)
(* string (a uuid4, or whatever the JSON file holds, the empty string      *)
(* included), and the text of its item in the tag list, which is made of   *)
(* its title and coordinates.  The floor plan script is not running.       *)
(***************************************************************************)
ScriptIdle ==
    /\ pc = "load"
    /\ error = "none"
    /\ pcd = <<>>
    /\ points = <<>>
    /\ points_normalized = <<>>
    /\ floor_points_temp = <<>>
    /\ rotation_matrix_2d = Identity2
    /\ floor_points = <<>>
    /\ x_bins = NoBins
    /\ y_bins = NoBins
    /\ x_min = 0
    /\ y_min = 0
    /\ grid = NoGrid
    /\ polygons = <<>>
    /\ merged_floor = NoRegion
    /\ fallback = FALSE
    /\ z_min = 0
    /\ z_max = 0
    /\ i = 0
    /\ wall_slices = <<>>
    /\ measurements = <<>>

MaxIds == 2

MaxTags == 2

\* the ids: "" and "1", "2", ...
TagIds == {""} \cup {ToString(k) : k \in 1..MaxIds}

TagTexts == {"A - (0.00, 0.00, 0.00)", "B - (1.00, 0.00, 0.00)"}

TagValues == [id : TagIds, text : TagTexts]

\* what Tag.from_dict makes of the JSON file: any list of tags
TagFiles == UNION {[1..n -> TagValues] : n \in 0..(MaxTags - 1)}

\* TagManager.save(): the file is written, or an exception is caught and the
\* file is left as it was
save(new_tags) == storage' = new_tags \/ storage' = storage

\* TagManager.add_tag(tag)
add_tag(tag) ==
    /\ tags' = Append(tags, tag)
    /\ save(Append(tags, tag))
    /\ tag_call' = [op |-> "add_tag", tag_id |-> tag.id, saved |-> TRUE]

\* variant: only the first tag of that id is removed
remove_tag_FirstOnly(tag_id) ==
    LET first == {k \in 1..Len(tags) :
                      tags[k].id = tag_id /\ \A j \in 1..(k - 1) : tags[j].id # tag_id}
        kept  == [k \in 1..(Len(tags) - Cardinality(first)) |->
                     IF \E f \in first : f <= k THEN tags[k + 1] ELSE tags[k]]
    IN  /\ tags' = kept
        /\ IF Len(kept) < Len(tags)
           THEN /\ save(kept)
                /\ tag_call' = [op |-> "remove_tag", tag_id |-> tag_id,
                                result |-> TRUE, saved |-> TRUE]
           ELSE /\ storage' = storage
                /\ tag_call' = [op |-> "remove_tag", tag_id |-> tag_id,
                                result |-> FALSE, saved |-> FALSE]

\* TagManager.remove_tag(tag_id)
remove_tag(tag_id) ==
    LET Keep(t) == t.id # tag_id
        kept    == SelectSeq(tags, Keep)
    IN  /\ tags' = kept
        /\ IF Len(kept) < Len(tags)
           THEN /\ save(kept)
                /\ tag_call' = [op |-> "remove_tag", tag_id |-> tag_id,
                                result |-> TRUE, saved |-> TRUE]
           ELSE /\ storage' = storage
                /\ tag_call' = [op |-> "remove_tag", tag_id |-> tag_id,
                                result |-> FALSE, saved |-> FALSE]

\* the value that stands for None where a tag is expected
NoTag == [id |-> None, text |-> None]

\* TagManager.get_tag_by_id(tag_id): the first tag of that id, or None
get_tag_by_id(tag_id) ==
    IF \E k \in 1..Len(tags) : tags[k].id = tag_id
    THEN tags[CHOOSE k \in 1..Len(tags) :
                  tags[k].id = tag_id /\ \A j \in 1..(k - 1) : tags[j].id # tag_id]
    ELSE NoTag

\* the variables of MainWindow and PhotoPanel
window_vars == <<selected_tag_id, move_mode, file_queue, dialogs, posted,
                 main_thread, current_photos, photo_count_label, clicks, taken>>

TagInit ==
    /\ ScriptIdle
    /\ tags = <<>>
    /\ storage \in TagFiles
    /\ tag_call = [op |-> "none"]
    /\ selected_tag_id = None
    /\ move_mode = FALSE
    /\ file_queue = <<>>
    /\ dialogs = {}
    /\ posted = 0
    /\ main_thread = "idle"
    /\ current_photos = <<>>
    /\ photo_count_label = 0
    /\ clicks = 0
    /\ taken = <<>>

\* TagManager.load(), called once: the tags of the file, or, with a file that
\* does not parse, the exception is caught and self.tags stays as it is
TagLoad ==
    /\ tag_call.op = "none"
    /\ tags' = storage \/ tags' = tags
    /\ tag_call' = [op |-> "load"]
    /\ UNCHANGED <<storage, window_vars, script_vars>>

AddTagCall ==
    /\ tag_call.op # "none"
    /\ Len(tags) < MaxTags
    /\ \E tag \in TagValues : add_tag(tag)
    /\ UNCHANGED <<window_vars, script_vars>>

RemoveTagCall ==
    /\ tag_call.op # "none"
    /\ \E tag_id \in TagIds : remove_tag(tag_id)
    /\ UNCHANGED <<window_vars, script_vars>>

TagNext == TagLoad \/ AddTagCall \/ RemoveTagCall

TagSpec == TagInit /\ [][TagNext]_vars

\* the truth value Python gives a tag id or None: the empty string is false
Truthy(tag_id) == tag_id \notin {None, ""}

\* the ids uuid4 can give a new Tag: not empty, and the id of no stored tag
NewIds == {id \in TagIds \ {""} : \A k \in 1..Len(tags) : tags[k].id # id}

\* PhotoPanel.clear() and PhotoPanel._on_clear()
clear ==
    /\ current_photos' = <<>>
    /\ photo_count_label' = 0

photo_queue_vars == <<file_queue, dialogs, posted, main_thread, clicks, taken>>

\* MainWindow._on_save_tag(), past the validation: the tag is added, and then
\* either the handler runs to its end (the photo panel is cleared at line 319
\* and the new tag selected at line 323) or an exception between add_tag and
\* line 323 ends it, before or after the panel was cleared
OnSaveTag ==
    /\ tag_call.op # "none"
    /\ main_thread = "idle"
    /\ Len(tags) < MaxTags
    /\ \E id \in NewIds, text \in TagTexts :
          /\ add_tag([id |-> id, text |-> text])
          /\ \/ clear /\ selected_tag_id' = id
             \/ clear /\ selected_tag_id' = selected_tag_id
             \/ UNCHANGED <<current_photos, photo_count_label, selected_tag_id>>
    /\ UNCHANGED <<move_mode, photo_queue_vars, script_vars>>

\* variant: the selection is cleared, move mode is left as it is
OnDeleteTag_KeepsMoveMode ==
    /\ tag_call.op # "none"
    /\ main_thread = "idle"
    /\ Truthy(selected_tag_id)
    /\ get_tag_by_id(selected_tag_id) # NoTag
    /\ remove_tag(selected_tag_id)
    /\ selected_tag_id' = None
    /\ UNCHANGED <<move_mode, current_photos, photo_count_label,
                   photo_queue_vars, script_vars>>

\* MainWindow._on_delete_tag(), past its two early returns
OnDeleteTag ==
    /\ tag_call.op # "none"
    /\ main_thread = "idle"
    /\ Truthy(selected_tag_id)
    /\ get_tag_by_id(selected_tag_id) # NoTag
    /\ remove_tag(selected_tag_id)
    /\ selected_tag_id' = None
    /\ move_mode' = FALSE
    /\ UNCHANGED <<current_photos, photo_count_label, photo_queue_vars, script_vars>>

\* MainWindow._on_tag_selected(new_val, is_double_click): the first tag
\* whose item text is new_val
OnTagSelected ==
    /\ tag_call.op # "none"
    /\ main_thread = "idle"
    /\ \E new_val \in TagTexts :
          /\ \E k \in 1..Len(tags) : tags[k].text = new_val
          /\ LET first == CHOOSE k \in 1..Len(tags) :
                              /\ tags[k].text = new_val
                              /\ \A j \in 1..(k - 1) : tags[j].text # new_val
             IN  selected_tag_id' = tags[first].id
    /\ UNCHANGED <<tags, storage, tag_call, move_mode, current_photos,
                   photo_count_label, photo_queue_vars, script_vars>>

\* MainWindow._toggle_move_mode()
ToggleMoveMode ==
    /\ tag_call.op # "none"
    /\ main_thread = "idle"
    /\ IF move_mode
       THEN move_mode' = FALSE
       ELSE /\ Truthy(selected_tag_id)
            /\ get_tag_by_id(selected_tag_id) # NoTag
            /\ move_mode' = TRUE
    /\ UNCHANGED <<tags, storage, tag_call, selected_tag_id, current_photos,
                   photo_count_label, photo_queue_vars, script_vars>>

WindowNext ==
    \/ TagLoad
    \/ OnSaveTag
    \/ OnDeleteTag
    \/ OnTagSelected
    \/ ToggleMoveMode

WindowSpec == TagInit /\ [][WindowNext]_vars

(***************************************************************************)
(* PhotoPanel, with its window set.  The k-th Upload click starts the      *)
(* thread k; its dialog gives the paths <<k, 1>> .. <<k, n>>, or nothing.  *)
(* An item of file_queue is [click, paths], with paths = <<>> for None.    *)
(* posted is the number of _check_queue callbacks posted to the main       *)
(* thread and not yet run; main_thread is "upload" between the start of    *)
(* the thread and the call of _check_queue at the end of _on_upload, and   *)
(* "idle" between two callbacks.  taken is the history of the items that   *)
(* get_nowait returned.                                                    *)
(***************************************************************************)
MaxClicks == 3

MaxPaths == 2

\* what the dialog of click k can give: list(file_paths), or None
DialogResults(k) ==
    {[click |-> k, paths |-> [j \in 1..n |-> <<k, j>>]] : n \in 0..MaxPaths}

tag_vars == <<tags, storage, tag_call, selected_tag_id, move_mode>>

\* variant: with the queue empty the poll is not posted again
check_queue_NoRepost(pending) ==
    IF file_queue # <<>>
    THEN LET file_paths == Head(file_queue)
         IN  /\ file_queue' = Tail(file_queue)
             /\ taken' = Append(taken, file_paths)
             /\ IF file_paths.paths # <<>>
                THEN /\ current_photos' = current_photos \o file_paths.paths
                     /\ photo_count_label' = Len(current_photos \o file_paths.paths)
                ELSE UNCHANGED <<current_photos, photo_count_label>>
             /\ posted' = pending
    ELSE /\ posted' = pending
         /\ UNCHANGED <<file_queue, taken, current_photos, photo_count_label>>

\* PhotoPanel._check_queue(), run while `pending` other polls are posted:
\* get_nowait takes the head of the queue, or raises queue.Empty and the poll
\* is posted again
check_queue(pending) ==
    IF file_queue # <<>>
    THEN LET file_paths == Head(file_queue)
         IN  /\ file_queue' = Tail(file_queue)
             /\ taken' = Append(taken, file_paths)
             /\ IF file_paths.paths # <<>>
                THEN /\ current_photos' = current_photos \o file_paths.paths
                     /\ photo_count_label' = Len(current_photos \o file_paths.paths)
                ELSE UNCHANGED <<current_photos, photo_count_label>>
             /\ posted' = pending
    ELSE /\ posted' = pending + 1
         /\ UNCHANGED <<file_queue, taken, current_photos, photo_count_label>>

PhotoInit ==
    /\ ScriptIdle
    /\ TaggerIdle

\* PhotoPanel._on_upload() up to threading.Thread(...).start()
OnUploadStart ==
    /\ main_thread = "idle"
    /\ clicks < MaxClicks
    /\ clicks' = clicks + 1
    /\ dialogs' = dialogs \cup {clicks + 1}
    /\ main_thread' = "upload"
    /\ UNCHANGED <<file_queue, posted, taken, current_photos, photo_count_label,
                   tag_vars, script_vars>>

\* the rest of PhotoPanel._on_upload(): self._check_queue()
OnUploadCheck ==
    /\ main_thread = "upload"
    /\ check_queue(posted)
    /\ main_thread' = "idle"
    /\ UNCHANGED <<dialogs, clicks, tag_vars, script_vars>>

\* file_dialog_thread of one click: the dialog is closed (with files, with
\* none, or by an exception) and the thread puts its one item
DialogPut ==
    /\ \E k \in dialogs :
          /\ dialogs' = dialogs \ {k}
          /\ \E file_paths \in DialogResults(k) :
                file_queue' = Append(file_queue, file_paths)
    /\ UNCHANGED <<posted, main_thread, clicks, taken, current_photos,
                   photo_count_label, tag_vars, script_vars>>

\* a posted _check_queue is run by the main thread
CheckQueue ==
    /\ main_thread = "idle"
    /\ posted > 0
    /\ check_queue(posted - 1)
    /\ UNCHANGED <<main_thread, dialogs, clicks, tag_vars, script_vars>>

\* PhotoPanel._on_clear(), and PhotoPanel.clear() called by _on_save_tag
OnClear ==
    /\ main_thread = "idle"
    /\ clear
    /\ UNCHANGED <<photo_queue_vars, tag_vars, script_vars>>

PhotoNext ==
    \/ OnUploadStart
    \/ OnUploadCheck
    \/ DialogPut
    \/ CheckQueue
    \/ OnClear

PhotoSpec == PhotoInit /\ [][PhotoNext]_vars

\* The main thread runs its handler to the end and runs every posted
\* callback; every dialog is closed at some time, and its thread then runs.
PhotoFairSpec ==
    /\ PhotoInit
    /\ [][PhotoNext]_vars
    /\ WF_vars(OnUploadCheck)
    /\ WF_vars(CheckQueue)
    /\ WF_vars(DialogPut)

(***************************************************************************)
(* Properties of the pipeline.                                             *)
(***************************************************************************)
\* C1: for every non-empty input, after the normalization step the minimum
\* of the normalized rows over each of the x, y and z axes is 0.
C1_NormalizedMinimumIsZero ==
    pc = "align" => \A ax \in {"x", "y", "z"} : AxisMin(points_normalized, ax) = 0

\* a cloud read with a non-zero minimum on every axis has been normalized
C1_Witness ==
    /\ pc = "align"
    /\ \A ax \in {"x", "y", "z"} : AxisMin(pcd, ax) # 0

\* C2 (as stated): an empty input fails with the dedicated EmptyInputError
\* and the run is aborted before any stage.
C2_EmptyInputError ==
    pcd = <<>> /\ pc \notin {"load", "normalize"} =>
        pc = "aborted" /\ error = "EmptyInputError"

\* C2 (amended): an empty input ends the run with the ValueError that the
\* minimum of the normalization step raises; no later stage runs and nothing
\* is produced.
C2_EmptyInputAborts ==
    pcd = <<>> /\ pc \notin {"load", "normalize"} =>
        /\ pc = "aborted"
        /\ error = "ValueError"
        /\ points_normalized = <<>>
        /\ floor_points = <<>>
        /\ grid = NoGrid
        /\ merged_floor = NoRegion
        /\ wall_slices = <<>>
        /\ measurements = <<>>

\* the run on the empty cloud has ended
C2_Witness == pcd = <<>> /\ pc = "aborted"

C4_WallBandMinimumCount ==
    [][pc = "wall_loop" /\ i < n_slices =>
           LET slice_points == SlicePoints(points, z_min, z_max, i)
           IN  /\ NumRows(slice_points) < min_stratum_points =>
                      /\ grid' = grid
                      /\ wall_slices' = wall_slices
                      /\ i' = i + 1
               /\ NumRows(slice_points) >= min_stratum_points =>
                      grid' = Histogram2d(slice_points, x_bins, y_bins)
               /\ \A k \in 1..Len(wall_slices') :
                      NumRows(wall_slices'[k].slice_points) >= min_stratum_points]_vars

\* a band of exactly 500 rows is in wall_slices and a band of fewer rows
\* was passed over
C4_Witness ==
    /\ pc = "done"
    /\ \E k \in 1..Len(wall_slices) :
           NumRows(wall_slices[k].slice_points) = min_stratum_points
    /\ \E b \in 0..(n_slices - 1) :
           /\ NumRows(SlicePoints(points, z_min, z_max, b)) \in 1..(min_stratum_points - 1)
           /\ \A k \in 1..Len(wall_slices) : wall_slices[k].i # b

\* C5: the n_slices wall intervals over [z_min, z_max] are non-overlapping
\* and exhaustive: every row of the aligned cloud, the rows with z = z_max
\* included, passes the membership test of exactly one band.
C5_BandsExhaustive ==
    pc = "wall_loop" =>
        \A j \in 1..Len(points) :
            Cardinality({k \in 0..(n_slices - 1) :
                            InBand(points[j].z, z_min, z_max, k)}) = 1

\* C6: the density grid has ceil((max - min) / resolution) cells on each
\* axis, max and min being the extent of the floor band on that axis.
C6_GridDimensions ==
    pc = "floor_merge" =>
        grid.shape =
            << CeilDiv(AxisMax(floor_points, "x") - AxisMin(floor_points, "x"),
                       resolution),
               CeilDiv(AxisMax(floor_points, "y") - AxisMin(floor_points, "y"),
                       resolution) >>

\* C7: with zero valid floor polygons the floor Region is the convex hull of
\* the rows selected with percentile 5 and the run goes on to the wall stage
\* without an error; with at least one valid polygon the floor Region is the
\* union of the valid polygons and the fallback is not taken.
C7_FloorFallback ==
    /\ pc = "wall_setup" => error = "none" /\ merged_floor # NoRegion
    /\ merged_floor # NoRegion =>
           IF polygons = <<>>
           THEN LET looser == XYOf(FloorSelect(points, fallback_percentile))
                    ring   == merged_floor.parts[1].coords
                IN  /\ fallback
                    /\ merged_floor.kind = "hull"
                    /\ Len(merged_floor.parts) = 1
                    /\ {ring[k] : k \in 1..Len(ring)} \subseteq looser
                    /\ \A k \in 1..Len(ring) :
                           Orient(ring[k], RingNext(ring, k),
                                  RingNext(ring, IF k = Len(ring) THEN 1 ELSE k + 1))
                               >= 0
                    /\ \A p \in looser : InsideOrOn(p, ring)
           ELSE /\ ~fallback
                /\ merged_floor.kind = "union"
                /\ merged_floor.polys = polygons
                /\ \A k \in 1..Len(merged_floor.parts) :
                       \E j \in 1..Len(polygons) : merged_floor.parts[k] = polygons[j]
                /\ \A j \in 1..Len(polygons) :
                       \E k \in 1..Len(merged_floor.parts) :
                           Within(polygons[j].coords, merged_floor.parts[k].coords)
                /\ floor_points = FloorSelect(points, floor_percentile)

\* the fallback was taken on a cloud whose looser selection holds more rows
\* than the floor band, and the run is about to enter the wall stage
C7_Witness ==
    /\ pc = "wall_setup"
    /\ fallback
    /\ polygons = <<>>
    /\ floor_points # FloorSelect(points, floor_percentile)

C10_WallFailureDoesNotAbort ==
    pc = "aborted" => merged_floor = NoRegion

\* C11: when the near-floor rows are collinear or too few, so that the
\* covariance is singular or NaN, the alignment either fails or skips the
\* rotation: a run that went past the alignment with such a covariance has
\* the identity as its rotation.
C11_DegeneracyDetected ==
    pc = "floor_slice" =>
        LET cov == CovMatrix(floor_points_temp)
            singular ==
                \/ cov.nan
                \/ IF cov.m[1][2] = 0
                   THEN cov.m[1][1] = 0 \/ cov.m[2][2] = 0
                   ELSE cov.m[1][1] * cov.m[2][2] = cov.m[1][2] * cov.m[2][1]
        IN  singular => rotation_matrix_2d = Identity2

\* C12: the alignment does not change the array the normalization produced:
\* from the alignment on, points_normalized still holds the normalized rows.
C12_NormalizedArrayUnchanged ==
    pcd # <<>> /\ pc \notin {"load", "normalize"} =>
        points_normalized = Normalize(pcd)

\* C13: the alignment keeps the number of rows and the z of every row: from
\* the normalization on, the rows are those read, each with its z less the
\* minimum z of the cloud; only x and y are changed by the alignment.
C13_AlignKeepsCountAndZ ==
    pcd # <<>> /\ pc \notin {"load", "normalize"} =>
        LET z_min_orig == AxisMin(pcd, "z")
        IN  /\ Len(points) = Len(pcd)
            /\ \A k \in 1..Len(pcd) :
                   /\ points[k].z = pcd[k].z - z_min_orig
                   /\ points[k].n = pcd[k].n

\* the alignment has turned a cloud and moved the x of one of its rows
C13_Witness ==
    /\ pc = "floor_slice"
    /\ rotation_matrix_2d # Identity2
    /\ \E k \in 1..Len(pcd) : points[k].x # pcd[k].x - AxisMin(pcd, "x")

\* C14: after the alignment (rotation about the near-floor centroid, then
\* recentring) the minimum x and the minimum y over all rows are both 0.
C14_AlignedMinimumIsZero ==
    pcd # <<>> /\ pc \notin {"load", "normalize", "align"} /\ error # "LinAlgError" =>
        AxisMin(points, "x") = 0 /\ AxisMin(points, "y") = 0

\* a cloud with extent on both axes was turned and recentred
C14_Witness ==
    /\ pc = "floor_slice"
    /\ rotation_matrix_2d # Identity2
    /\ AxisMax(points, "x") > 0
    /\ AxisMax(points, "y") > 0

\* C15: the rotation matrix the alignment applied (the transposed sorted
\* eigenvectors, the second one negated on a negative determinant) is
\* orthonormal with determinant +1, in every run that went past the
\* alignment, the non-degenerate ones included.
C15_RotationIsProper ==
    pcd # <<>> /\ pc \notin {"load", "normalize", "align"} /\ error # "LinAlgError" =>
        LET R == rotation_matrix_2d
        IN  /\ R[1][1] * R[1][1] + R[1][2] * R[1][2] = 1
            /\ R[2][1] * R[2][1] + R[2][2] * R[2][2] = 1
            /\ R[1][1] * R[2][1] + R[1][2] * R[2][2] = 0
            /\ R[1][1] * R[2][2] - R[1][2] * R[2][1] = 1

\* a cloud with a regular near-floor covariance had its eigenvectors swapped
C15_Witness ==
    /\ pc = "floor_slice"
    /\ rotation_matrix_2d # Identity2
    /\ LET cov == CovMatrix(floor_points_temp)
       IN  ~cov.nan /\ cov.m[1][1] > 0 /\ cov.m[2][2] > 0 /\ cov.m[1][2] = 0

\* C16: the bin edges are derived once, from the XY extent of the floor band
\* and the resolution; they are the same after the fallback and during the
\* wall loop, and every grid computed, the floor's and each wall band's, has
\* the shape these edges give.
C16_SharedBinEdges ==
    \/ pc \in {"floor_merge", "wall_setup", "wall_loop", "measure", "export", "done"}
    \/ pc = "aborted" /\ merged_floor # NoRegion
    => LET band == FloorSelect(points, floor_percentile)
       IN  /\ x_min = AxisMin(band, "x")
           /\ y_min = AxisMin(band, "y")
           /\ x_bins = Arange(x_min, AxisMax(band, "x"))
           /\ y_bins = Arange(y_min, AxisMax(band, "y"))
           /\ grid.shape = <<x_bins.n - 1, y_bins.n - 1>>

\* after the fallback, a wall band of another XY extent than the floor band
\* went through the grid and is in wall_slices
C16_Witness ==
    /\ pc = "done"
    /\ fallback
    /\ \E k \in 1..Len(wall_slices) :
           AxisMax(wall_slices[k].slice_points, "x")
               # AxisMax(FloorSelect(points, floor_percentile), "x")

\* C17: a cell of a band's grid is occupied if and only if more than
\* occupancy_minimum (1) of the band's points fall in it, for the floor band
\* and for every wall band that is rasterized; a cell of exactly one point is
\* unoccupied.  A point falls in cell (ix, iy) when its x is in
\* [x_min + ix * resolution, x_min + (ix + 1) * resolution) and its y likewise,
\* the last interval of an axis being closed.
C17_OccupiedIffMoreThanMinimum ==
    LET floorState == pc = "floor_merge"
        wallState  == /\ pc = "wall_loop"
                      /\ i > 0
                      /\ LET InPrev(p) == InBand(p.z, z_min, z_max, i - 1)
                         IN  NumRows(SelectSeq(points, InPrev)) >= min_stratum_points
        InPrevBand(p) == InBand(p.z, z_min, z_max, i - 1)
        rows == IF floorState THEN floor_points ELSE SelectSeq(points, InPrevBand)
        In(v, lo, k, cells) ==
            /\ v >= lo + k * resolution
            /\ \/ v < lo + (k + 1) * resolution
               \/ k = cells - 1 /\ v = lo + cells * resolution
    IN  floorState \/ wallState =>
            \A ix \in 0..(grid.shape[1] - 1) :
                LET InColumn(p) == In(p.x, x_min, ix, grid.shape[1])
                    column == SelectSeq(rows, InColumn)
                IN  \A iy \in 0..(grid.shape[2] - 1) :
                        LET InCell(p) == In(p.y, y_min, iy, grid.shape[2])
                        IN  Binary(grid, iy, ix)
                                <=> NumRows(SelectSeq(column, InCell)) > occupancy_minimum

\* the floor band has a cell of exactly one point and a cell of two
C17_Witness ==
    /\ pc = "floor_merge"
    /\ \E c \in DOMAIN grid.count : grid.count[c] = 1
    /\ \E c \in DOMAIN grid.count : grid.count[c] = 2 /\ Binary(grid, c[2], c[1])

\* C18: wall_slices is ordered by strictly increasing band index, so a band
\* has at most one entry; every entry carries a band index of the loop, a
\* merged Region with at least one polygon, and exactly the aligned points
\* whose z lies in the half-open interval of its band, in their order.
C18_WallSlicesOrderedAndComplete ==
    /\ \A k \in 1..Len(wall_slices) :
           LET entry == wall_slices[k]
               InEntryBand(p) == InBand(p.z, z_min, z_max, entry.i)
           IN  /\ entry.i \in 0..(n_slices - 1)
               /\ entry.i < i
               /\ entry.region.kind = "union"
               /\ entry.region.parts # <<>>
               /\ entry.slice_points = SelectSeq(points, InEntryBand)
    /\ \A k \in 1..(Len(wall_slices) - 1) : wall_slices[k].i < wall_slices[k + 1].i

\* two bands that are not neighbours were emitted, and a point on the upper
\* limit of the last band is in neither entry
C18_Witness ==
    /\ pc = "done"
    /\ Len(wall_slices) = 2
    /\ wall_slices[1].i + 1 < wall_slices[2].i
    /\ wall_slices[2].i = n_slices - 1
    /\ \E k \in 1..Len(points) : points[k].z = z_max

\* C19: the measurement of a non-empty Region has the width and the height of
\* the bounding box of all its components, max x - min x and max y - min y,
\* and the area that is the sum of the areas of its components; the three are
\* non-negative.  This holds of what measure_polygon returns for a geometry
\* and of every measurement the script takes.
C19_MeasurementOfRegion ==
    LET Measures(region, m) ==
            LET xs == UNION {{region.parts[k].coords[j][1] :
                                 j \in 1..Len(region.parts[k].coords)} :
                                 k \in 1..Len(region.parts)}
                ys == UNION {{region.parts[k].coords[j][2] :
                                 j \in 1..Len(region.parts[k].coords)} :
                                 k \in 1..Len(region.parts)}
            IN  /\ m.width = SetMax(xs) - SetMin(xs)
                /\ m.height = SetMax(ys) - SetMin(ys)
                /\ m.area2 = SeqSum([k \in 1..Len(region.parts) |->
                                        Abs(Shoelace2(region.parts[k].coords))])
                /\ m.width >= 0 /\ m.height >= 0 /\ m.area2 >= 0
    IN  /\ pc = "return" /\ merged_floor.parts # <<>> =>
               Measures(merged_floor, measurements[1])
        /\ pc \in {"export", "done"} =>
               /\ Len(measurements) = 1 + Len(wall_slices)
               /\ Measures(merged_floor, measurements[1])
               /\ \A k \in 1..Len(wall_slices) :
                      Measures(wall_slices[k].region, measurements[k + 1])

\* a Region of two components of different heights was measured
C19_Witness ==
    /\ pc = "return"
    /\ Len(merged_floor.parts) = 2
    /\ merged_floor.parts[1].area2 > 0 /\ merged_floor.parts[2].area2 > 0
    /\ measurements[1].area2 > merged_floor.parts[1].area2
    /\ measurements[1].width > measurements[1].height

C22_UnionMonotone ==
    LET Area2(region) ==
            SeqSum([k \in 1..Len(region.parts) |-> region.parts[k].area2])
        Monotone(region, polys) ==
            /\ \A k \in 1..Len(polys) : Area2(region) >= polys[k].area2
            /\ Area2(region) <= SeqSum([k \in 1..Len(polys) |-> polys[k].area2])
    IN  /\ merged_floor.kind = "union" => Monotone(merged_floor, polygons)
        /\ \A k \in 1..Len(wall_slices) :
               Monotone(wall_slices[k].region, wall_slices[k].region.polys)

\* a ring within another and a third beside them were unioned: the area of
\* the Region is above the largest polygon and below the sum
C22_Witness ==
    /\ pc = "union_return"
    /\ Len(polygons) = 3
    /\ Len(merged_floor.parts) = 2
    /\ merged_floor.parts[1].area2 + merged_floor.parts[2].area2
           < polygons[1].area2 + polygons[2].area2 + polygons[3].area2
    /\ \A k \in 1..3 :
           merged_floor.parts[1].area2 + merged_floor.parts[2].area2 > polygons[k].area2

C24_FloorRegionExists ==
    /\ pc \in {"floor_outline", "floor_merge", "wall_setup", "wall_loop",
               "measure", "export", "done"} =>
           LET lowest   == AxisMin(points, "z")
               selected == {floor_points[j] : j \in 1..Len(floor_points)}
           IN  /\ floor_points # <<>>
               /\ \A k \in 1..Len(points) :
                      points[k].z = lowest => points[k] \in selected
    /\ pc \in {"measure", "export", "done"} =>
           /\ merged_floor.kind \in {"union", "hull"}
           /\ merged_floor.parts # <<>>
           /\ merged_floor.kind = "union" <=> ~fallback
           /\ merged_floor.kind = "hull" => Len(merged_floor.parts) = 1

\* a run reached the measurements with the hull of a floor selection that
\* leaves out the rows above the floor
C24_Witness ==
    /\ pc = "measure"
    /\ merged_floor.kind = "hull"
    /\ Len(floor_points) < Len(points)
    /\ \E k \in 1..Len(floor_points) : floor_points[k].z > AxisMin(points, "z")

\* C25: every row of the floor band is counted in exactly one cell of the
\* floor grid: the counts of all cells add up to the number of rows of the
\* band, the rows at the maximum x or y of the band included.
C25_AllFloorPointsBinned ==
    pc = "floor_merge" =>
        LET nx == grid.shape[1]
            ny == grid.shape[2]
        IN  SeqSum([k \in 1..(nx * ny) |->
                       grid.count[<<(k - 1) % nx, (k - 1) \div nx>>]])
                = NumRows(floor_points)

\* C26: the rows selected as near-floor before the alignment and the rows of
\* the floor band selected after it are the same rows of the array: row k is
\* in the one selection if and only if it is in the other (the first holding
\* it with its normalized coordinates, the second with its aligned ones).
C26_SameRowsBeforeAndAfter ==
    pc \in {"floor_outline", "floor_merge"} =>
        LET normalized == Normalize(pcd)
            nearFloor  == {floor_points_temp[j] : j \in 1..Len(floor_points_temp)}
            floorBand  == {floor_points[j] : j \in 1..Len(floor_points)}
        IN  /\ Len(floor_points_temp) = Len(floor_points)
            /\ \A k \in 1..Len(points) :
                   normalized[k] \in nearFloor <=> points[k] \in floorBand
            /\ \A j \in 1..Len(floor_points) :
                   /\ floor_points[j].z = floor_points_temp[j].z
                   /\ floor_points[j].n = floor_points_temp[j].n

\* the alignment turned the cloud, the two selections hold different
\* coordinates, and rows above the floor are in neither
C26_Witness ==
    /\ pc = "floor_outline"
    /\ rotation_matrix_2d # Identity2
    /\ floor_points # floor_points_temp
    /\ Len(floor_points) > 1
    /\ Len(floor_points) < Len(points)

\* C27: once the fallback is taken, floor_points, which the export writes, is
\* the selection with percentile 5; it holds every row of the selection with
\* percentile 2; and the bin edges and their origin, which the wall bands
\* use afterwards, are still those of the selection with percentile 2.
C27_FallbackFrame ==
    fallback =>
        LET original == FloorSelect(points, floor_percentile)
            looser   == FloorSelect(points, fallback_percentile)
        IN  /\ floor_points = looser
            /\ {original[k] : k \in 1..Len(original)}
                   \subseteq {floor_points[k] : k \in 1..Len(floor_points)}
            /\ x_min = AxisMin(original, "x")
            /\ y_min = AxisMin(original, "y")
            /\ x_bins.lo = x_min
            /\ y_bins.lo = y_min
            /\ x_bins.n = CeilDiv(AxisMax(original, "x") - x_min, resolution)
            /\ y_bins.n = CeilDiv(AxisMax(original, "y") - y_min, resolution)

\* the export is reached after a fallback whose selection is larger, and
\* wider, than the original one
C27_Witness ==
    /\ pc = "export"
    /\ fallback
    /\ Len(floor_points) > Len(FloorSelect(points, floor_percentile))
    /\ AxisMax(floor_points, "x") > AxisMax(FloorSelect(points, floor_percentile), "x")

C29_MoveModeNeedsStoredSelection ==
    /\ [](move_mode =>
             /\ selected_tag_id # None
             /\ \E k \in 1..Len(tags) : tags[k].id = selected_tag_id)
    /\ [][(/\ selected_tag_id # None
           /\ \E k \in 1..Len(tags) : tags[k].id = selected_tag_id
           /\ \A k \in 1..Len(tags') : tags'[k].id # selected_tag_id)
          => selected_tag_id' = None /\ move_mode' = FALSE]_vars

\* a tag was deleted, and move mode is on again for another stored tag
C29_Witness ==
    /\ move_mode
    /\ tag_call.op = "remove_tag"
    /\ tag_call.result
    /\ \E k \in 1..Len(tags) : tags[k].id = selected_tag_id

====
